---- MODULE Spec2Model ----
(***************************************************************************)
(* Model of als.config (src/src/als/config.py): the user-settings module   *)
(* of ALS, built on configparser.ConfigParser, and of the preferences      *)
(* dialog that drives it (src/src/als/ui/dialogs.py).                      *)
(*                                                                         *)
(* Text is modelled as a sequence of one-character strings, so that the    *)
(* conversions the parser applies to values (interpolation of '%',         *)
(* stripping of white space on read, int()) are computed, not assumed.     *)
(* A Python value is a tagged record: PyStr(s), PyInt(n), PyNone.             *)
(***************************************************************************)
EXTENDS Integers, Sequences, FiniteSets, TLC

(***************************************************************************)
(* Bounds of the exploration.                                              *)
(***************************************************************************)
\* number of API calls (setters, save, accept) explored over all runs
MaxOps == 2
\* number of times the process is started
MaxRuns == 2

(***************************************************************************)
(* Python values.                                                          *)
(***************************************************************************)
PyStr(s) == [t |-> "str", s |-> s]
PyInt(n) == [t |-> "int", n |-> n]
PyNone == [t |-> "None"]

\* outcome of a call: a returned value or a raised exception
Ok(v) == [exc |-> "none", val |-> v]
Raise(e) == [exc |-> e, val |-> PyNone]

(***************************************************************************)
(* Constants of als.config.                                                *)
(***************************************************************************)
_SCAN_FOLDER_PATH == "scan_folder_path"
_WORK_FOLDER_PATH == "work_folder_path"
_LOG_LEVEL == "log_level"
_WWW_SERVER_PORT == "www_server_port"
_WINDOW_GEOMETRY == "window_geometry"

_LOG_LEVEL_DEBUG == <<"D", "E", "B", "U", "G">>
_LOG_LEVEL_INFO == <<"I", "N", "F", "O">>
_LOG_LEVEL_WARNING == <<"W", "A", "R", "N", "I", "N", "G">>
_LOG_LEVEL_ERROR == <<"E", "R", "R", "O", "R">>
_LOG_LEVEL_CRITICAL == <<"C", "R", "I", "T", "I", "C", "A", "L">>

\* the logging module's numeric severities
_LOG_LEVELS ==
    [s \in {_LOG_LEVEL_DEBUG, _LOG_LEVEL_INFO, _LOG_LEVEL_WARNING,
            _LOG_LEVEL_ERROR, _LOG_LEVEL_CRITICAL} |->
        CASE s = _LOG_LEVEL_DEBUG -> 10
          [] s = _LOG_LEVEL_INFO -> 20
          [] s = _LOG_LEVEL_WARNING -> 30
          [] s = _LOG_LEVEL_ERROR -> 40
          [] s = _LOG_LEVEL_CRITICAL -> 50]

\* os.path.expanduser("~"): the home directory of the user running ALS
HomeDir == <<"/", "h">>

_DEFAULTS ==
    [k \in {_SCAN_FOLDER_PATH, _WORK_FOLDER_PATH, _LOG_LEVEL,
            _WWW_SERVER_PORT, _WINDOW_GEOMETRY} |->
        CASE k = _SCAN_FOLDER_PATH ->
                 HomeDir \o <<"/", "a", "l", "s", "/", "s", "c", "a", "n">>
          [] k = _WORK_FOLDER_PATH ->
                 HomeDir \o <<"/", "a", "l", "s", "/", "w", "o", "r", "k">>
          [] k = _LOG_LEVEL -> <<"I", "N", "F", "O">>
          [] k = _WWW_SERVER_PORT -> <<"8", "0", "0", "0">>
          [] k = _WINDOW_GEOMETRY ->
                 <<"5", "0", ",", "1", "0", "0", ",",
                   "1", "0", "2", "4", ",", "8", "0", "0">>]

_MAIN_SECTION_NAME == "main"

\* configparser.DEFAULTSECT
DEFAULTSECT == "DEFAULT"

\* configparser.MAX_INTERPOLATION_DEPTH
MAX_INTERPOLATION_DEPTH == 10

(***************************************************************************)
(* Text helpers.                                                           *)
(***************************************************************************)
Digits == {"0", "1", "2", "3", "4", "5", "6", "7", "8", "9"}

DigitVal(c) ==
    CASE c = "0" -> 0 [] c = "1" -> 1 [] c = "2" -> 2 [] c = "3" -> 3
      [] c = "4" -> 4 [] c = "5" -> 5 [] c = "6" -> 6 [] c = "7" -> 7
      [] c = "8" -> 8 [] c = "9" -> 9

\* str.isspace() on one character
IsSpace(c) == c \in {" ", "\t"}

Contains(s, c) == \E i \in 1..Len(s) : s[i] = c

Drop(s, n) == SubSeq(s, n + 1, Len(s))

\* str.find(c): index of the first c in s, 0 when there is none
Find(s, c) ==
    IF Contains(s, c)
    THEN CHOOSE i \in 1..Len(s) : s[i] = c /\ \A j \in 1..(i - 1) : s[j] # c
    ELSE 0

RECURSIVE LStrip(_)
LStrip(s) == IF s # <<>> /\ IsSpace(Head(s)) THEN LStrip(Tail(s)) ELSE s

RECURSIVE RStrip(_)
RStrip(s) ==
    IF s # <<>> /\ IsSpace(s[Len(s)]) THEN RStrip(SubSeq(s, 1, Len(s) - 1))
    ELSE s

\* str.strip()
Strip(s) == RStrip(LStrip(s))

\* the names an option can have in the settings file
OptionNames ==
    {_SCAN_FOLDER_PATH, _WORK_FOLDER_PATH, _LOG_LEVEL, _WWW_SERVER_PORT,
     _WINDOW_GEOMETRY, "WWW_SERVER_PORT", "LOG_LEVEL", "obsolete"}

\* RawConfigParser.optionxform: option names are lower-cased
optionxform(name) ==
    CASE name = "WWW_SERVER_PORT" -> _WWW_SERVER_PORT
      [] name = "LOG_LEVEL" -> _LOG_LEVEL
      [] OTHER -> name

\* the characters of an option name, as it appears in a %(name)s reference
OptionChars(name) ==
    CASE name = _SCAN_FOLDER_PATH ->
             <<"s", "c", "a", "n", "_", "f", "o", "l", "d", "e", "r", "_",
               "p", "a", "t", "h">>
      [] name = _WORK_FOLDER_PATH ->
             <<"w", "o", "r", "k", "_", "f", "o", "l", "d", "e", "r", "_",
               "p", "a", "t", "h">>
      [] name = _LOG_LEVEL -> <<"l", "o", "g", "_", "l", "e", "v", "e", "l">>
      [] name = _WWW_SERVER_PORT ->
             <<"w", "w", "w", "_", "s", "e", "r", "v", "e", "r", "_",
               "p", "o", "r", "t">>
      [] name = _WINDOW_GEOMETRY ->
             <<"w", "i", "n", "d", "o", "w", "_", "g", "e", "o", "m", "e",
               "t", "r", "y">>
      [] name = "obsolete" -> <<"o", "b", "s", "o", "l", "e", "t", "e">>
      [] OTHER -> <<>>

\* str.lower() on one character
LowerChar(c) ==
    CASE c = "A" -> "a" [] c = "B" -> "b" [] c = "C" -> "c" [] c = "D" -> "d"
      [] c = "E" -> "e" [] c = "F" -> "f" [] c = "G" -> "g" [] c = "H" -> "h"
      [] c = "I" -> "i" [] c = "J" -> "j" [] c = "K" -> "k" [] c = "L" -> "l"
      [] c = "M" -> "m" [] c = "N" -> "n" [] c = "O" -> "o" [] c = "P" -> "p"
      [] c = "Q" -> "q" [] c = "R" -> "r" [] c = "S" -> "s" [] c = "T" -> "t"
      [] c = "U" -> "u" [] c = "V" -> "v" [] c = "W" -> "w" [] c = "X" -> "x"
      [] c = "Y" -> "y" [] c = "Z" -> "z" [] OTHER -> c

Lower(s) == [i \in 1..Len(s) |-> LowerChar(s[i])]

(***************************************************************************)
(* configparser.BasicInterpolation, the interpolation of ConfigParser().   *)
(***************************************************************************)
\* _KEYCRE.match(s), _KEYCRE = %\(([^)]+)\)s : a reference at the head of s
KeyMatch(s) ==
    IF Len(s) >= 2 /\ s[1] = "%" /\ s[2] = "("
    THEN LET r == Drop(s, 2)
             p == Find(r, ")")
         IN  IF p >= 2 /\ Len(r) >= p + 1 /\ r[p + 1] = "s"
             THEN [ok |-> TRUE, name |-> SubSeq(r, 1, p - 1), len |-> p + 3]
             ELSE [ok |-> FALSE, name |-> <<>>, len |-> 0]
    ELSE [ok |-> FALSE, name |-> <<>>, len |-> 0]

\* value.replace('%%', '')
RECURSIVE RemoveEscapedPercents(_)
RemoveEscapedPercents(s) ==
    IF Len(s) < 2 THEN s
    ELSE IF s[1] = "%" /\ s[2] = "%" THEN RemoveEscapedPercents(Drop(s, 2))
    ELSE <<s[1]>> \o RemoveEscapedPercents(Tail(s))

\* _KEYCRE.sub('', s)
RECURSIVE RemoveReferences(_)
RemoveReferences(s) ==
    IF s = <<>> THEN s
    ELSE IF KeyMatch(s).ok THEN RemoveReferences(Drop(s, KeyMatch(s).len))
    ELSE <<s[1]>> \o RemoveReferences(Tail(s))

\* BasicInterpolation.before_set: TRUE when the value is accepted, FALSE
\* when it raises ValueError("invalid interpolation syntax")
before_set(value) ==
    ~Contains(RemoveReferences(RemoveEscapedPercents(value)), "%")

\* the option of map named by the characters var, "" when there is none
OptionNamed(map, var) ==
    IF \E k \in DOMAIN map : OptionChars(k) = var
    THEN CHOOSE k \in DOMAIN map : OptionChars(k) = var
    ELSE ""

\* prefix \o (the text an outcome carries), or the outcome's exception
Prepend(prefix, outcome) ==
    IF outcome.exc = "none" THEN Ok(prefix \o outcome.val) ELSE outcome

\* BasicInterpolation._interpolate_some: the expansion of rest, where map
\* is the section's options over those of the DEFAULT section.  It is cut
\* below at each point where the code has computed something: the '%'
\* found (r starts with it, pre is the text before it), the reference m
\* matched, the option var it names, the expansion inner of its value.
RECURSIVE _interpolate_some(_, _, _)

InterpolateValue(pre, rest, inner, map, depth) ==
    IF inner.exc # "none" THEN inner
    ELSE Prepend(pre \o inner.val, _interpolate_some(rest, map, depth))

InterpolateVar(pre, rest, var, map, depth) ==
    IF var = "" THEN Raise("InterpolationMissingOptionError")
    ELSE InterpolateValue(pre, rest,
                          IF Contains(map[var], "%")
                          THEN _interpolate_some(map[var], map, depth + 1)
                          ELSE Ok(map[var]),
                          map, depth)

InterpolateRef(pre, r, m, map, depth) ==
    IF ~m.ok THEN Raise("InterpolationSyntaxError")
    ELSE InterpolateVar(pre, Drop(r, m.len), OptionNamed(map, Lower(m.name)),
                        map, depth)

InterpolateAt(pre, r, map, depth) ==
    IF Len(r) >= 2 /\ r[2] = "%"
    THEN Prepend(pre \o <<"%">>, _interpolate_some(Drop(r, 2), map, depth))
    ELSE IF Len(r) >= 2 /\ r[2] = "("
    THEN InterpolateRef(pre, r, KeyMatch(r), map, depth)
    ELSE Raise("InterpolationSyntaxError")

_interpolate_some(rest, map, depth) ==
    IF depth > MAX_INTERPOLATION_DEPTH THEN Raise("InterpolationDepthError")
    ELSE IF ~Contains(rest, "%") THEN Ok(rest)
    ELSE InterpolateAt(SubSeq(rest, 1, Find(rest, "%") - 1),
                       Drop(rest, Find(rest, "%") - 1), map, depth)

\* BasicInterpolation.before_get
before_get(value, map) == _interpolate_some(value, map, 1)

(***************************************************************************)
(* int(text) of Python: white space around, a sign, digits and single      *)
(* underscores between digits.                                             *)
(***************************************************************************)
RECURSIVE DecimalValue(_, _)
DecimalValue(s, acc) ==
    IF s = <<>> THEN acc
    ELSE IF Head(s) = "_" THEN DecimalValue(Tail(s), acc)
    ELSE DecimalValue(Tail(s), 10 * acc + DigitVal(Head(s)))

IsDecimalLiteral(s) ==
    /\ s # <<>>
    /\ \A i \in 1..Len(s) : s[i] \in Digits \cup {"_"}
    /\ s[1] # "_"
    /\ s[Len(s)] # "_"
    /\ \A i \in 1..(Len(s) - 1) : ~(s[i] = "_" /\ s[i + 1] = "_")

\* int(v) for a Python value v: an integer, or ValueError
int(v) ==
    IF v.t = "int" THEN Ok(v)
    ELSE LET t == Strip(v.s)
             signed == t # <<>> /\ Head(t) \in {"+", "-"}
             body == IF signed THEN Tail(t) ELSE t
         IN  IF ~IsDecimalLiteral(body) THEN Raise("ValueError")
             ELSE IF signed /\ Head(t) = "-"
             THEN Ok(PyInt(0 - DecimalValue(body, 0)))
             ELSE Ok(PyInt(DecimalValue(body, 0)))

(***************************************************************************)
(* configparser.ConfigParser: the options of each section (_sections) and  *)
(* of the DEFAULT section (_defaults).  A dict is a function; the order of *)
(* the options of a section has no effect on any operation modelled here,  *)
(* so options are written in one fixed order.                              *)
(***************************************************************************)
EmptyDict == [k \in {} |-> <<>>]

DictSet(d, k, v) == [x \in DOMAIN d \cup {k} |-> IF x = k THEN v ELSE d[x]]

DictDel(d, k) == [x \in DOMAIN d \ {k} |-> d[x]]

\* ConfigParser(): a parser with no section
NewConfigParser == [sections |-> EmptyDict, defaults |-> EmptyDict]

\* RawConfigParser.has_section
has_section(cp, section) == section \in DOMAIN cp.sections

\* RawConfigParser.add_section
add_section(cp, section) ==
    [cp EXCEPT !.sections = DictSet(cp.sections, section, EmptyDict)]

\* RawConfigParser.options: the section's own options and the DEFAULT ones
options(cp, section) == DOMAIN cp.sections[section] \cup DOMAIN cp.defaults

\* remove_option that removes nothing
remove_option_nothing(cp, section, option) == cp

\* RawConfigParser.remove_option, for a section other than DEFAULT
remove_option(cp, section, option) ==
    [cp EXCEPT !.sections[section] = DictDel(@, optionxform(option))]

\* RawConfigParser._unify_values: the section's options over the DEFAULT ones
_unify_values(cp, section) ==
    [k \in DOMAIN cp.sections[section] \cup DOMAIN cp.defaults |->
        IF k \in DOMAIN cp.sections[section] THEN cp.sections[section][k]
        ELSE cp.defaults[k]]

\* the end of RawConfigParser.get: the interpolated value, as a str
Interpolated(value) ==
    IF value.exc # "none" THEN value ELSE Ok(PyStr(value.val))

\* RawConfigParser.get once d = _unify_values(section) is known
GetFrom(d, option, fallback) ==
    IF option \notin DOMAIN d THEN Ok(PyStr(fallback))
    ELSE Interpolated(before_get(d[option], d))

\* RawConfigParser.get(section, option, fallback=fallback)
ParserGet(cp, section, option, fallback) ==
    IF ~has_section(cp, section) THEN Ok(PyStr(fallback))
    ELSE GetFrom(_unify_values(cp, section), optionxform(option), fallback)

\* ConfigParser.set(section, option, value): the exception raised ("none"
\* when the option is stored) and the parser afterwards
ParserSet(cp, section, option, value) ==
    IF value.t # "str" THEN [exc |-> "TypeError", cp |-> cp]
    ELSE IF value.s # <<>> /\ ~before_set(value.s)
    THEN [exc |-> "ValueError", cp |-> cp]
    ELSE IF ~has_section(cp, section)
    THEN [exc |-> "NoSectionError", cp |-> cp]
    ELSE [exc |-> "none",
          cp |-> [cp EXCEPT !.sections[section] =
                               DictSet(@, optionxform(option), value.s)]]

(***************************************************************************)
(* The settings file: absent, or a sequence of lines.  A line is a section *)
(* header "[name]", an option "name =text" (text is what follows the       *)
(* delimiter), or a line that is neither ("garbage").                      *)
(***************************************************************************)
NoFile == [exists |-> FALSE, lines |-> <<>>]
FileOf(lines) == [exists |-> TRUE, lines |-> lines]

Header(name) == [kind |-> "header", name |-> name, text |-> <<>>]
Option(name, text) == [kind |-> "option", name |-> name, text |-> text]
Garbage == [kind |-> "garbage", name |-> "", text |-> <<>>]

\* one iteration of the loop of RawConfigParser._read (strict): st.cursect
\* is the section being filled ("" before the first header), st.added the
\* sections and options met in this file, st.errors whether a ParsingError
\* is pending, st.exc the exception that ended the reading
ReadLine(st, line) ==
    IF st.exc # "none" THEN st
    ELSE IF line.kind = "header"
    THEN IF line.name \in DOMAIN st.cp.sections
         THEN IF <<line.name>> \in st.added
              THEN [st EXCEPT !.exc = "DuplicateSectionError"]
              ELSE [st EXCEPT !.cursect = line.name,
                              !.added = @ \cup {<<line.name>>}]
         ELSE IF line.name = DEFAULTSECT
         THEN [st EXCEPT !.cursect = line.name,
                         !.added = @ \cup {<<line.name>>}]
         ELSE [st EXCEPT !.cp = add_section(@, line.name),
                         !.cursect = line.name,
                         !.added = @ \cup {<<line.name>>}]
    ELSE IF st.cursect = ""
    THEN [st EXCEPT !.exc = "MissingSectionHeaderError"]
    ELSE IF line.kind = "garbage" THEN [st EXCEPT !.errors = TRUE]
    ELSE LET optname == optionxform(line.name)
             optval == Strip(line.text)
         IN  IF <<st.cursect, optname>> \in st.added
             THEN [st EXCEPT !.exc = "DuplicateOptionError"]
             ELSE IF st.cursect = DEFAULTSECT
             THEN [st EXCEPT !.added = @ \cup {<<st.cursect, optname>>},
                             !.cp.defaults = DictSet(@, optname, optval)]
             ELSE [st EXCEPT !.added = @ \cup {<<st.cursect, optname>>},
                             !.cp.sections[st.cursect] =
                                 DictSet(@, optname, optval)]

RECURSIVE ReadLines(_, _)
ReadLines(st, lines) ==
    IF lines = <<>> THEN st
    ELSE ReadLines(ReadLine(st, Head(lines)), Tail(lines))

\* _read that reports no error: what was parsed is kept
_read_silent(cp, lines) ==
    [exc |-> "none",
     cp |-> ReadLines([cp |-> cp, cursect |-> "", added |-> {},
                       errors |-> FALSE, exc |-> "none"], lines).cp]

\* RawConfigParser._read: the exception raised ("none" when the file is
\* parsed) and the parser afterwards
_read(cp, lines) ==
    LET st == ReadLines([cp |-> cp, cursect |-> "", added |-> {},
                         errors |-> FALSE, exc |-> "none"], lines)
    IN  IF st.exc # "none" THEN [exc |-> st.exc, cp |-> st.cp]
        ELSE IF st.errors THEN [exc |-> "ParsingError", cp |-> st.cp]
        ELSE [exc |-> "none", cp |-> st.cp]

\* read that lets the error of opening a missing file escape
read_missing_raises(cp, f) ==
    IF ~f.exists THEN [exc |-> "FileNotFoundError", cp |-> cp]
    ELSE _read(cp, f.lines)

\* RawConfigParser.read(filename): a file that cannot be opened is skipped
read(cp, f) ==
    IF ~f.exists THEN [exc |-> "none", cp |-> cp] ELSE _read(cp, f.lines)

\* the order in which sections and options are written
SectionOrder == <<_MAIN_SECTION_NAME, "other">>
OptionOrder ==
    <<_SCAN_FOLDER_PATH, _WORK_FOLDER_PATH, _LOG_LEVEL, _WWW_SERVER_PORT,
      _WINDOW_GEOMETRY, "obsolete">>

\* RawConfigParser._write_section: "[name]", then "key = value" per option
_write_section(name, items) ==
    LET keys == SelectSeq(OptionOrder, LAMBDA k : k \in DOMAIN items)
    IN  <<Header(name)>> \o
        [i \in 1..Len(keys) |-> Option(keys[i], <<" ">> \o items[keys[i]])]

RECURSIVE WriteSections(_, _)
WriteSections(cp, names) ==
    IF names = <<>> THEN <<>>
    ELSE _write_section(Head(names), cp.sections[Head(names)])
         \o WriteSections(cp, Tail(names))

\* RawConfigParser.write: the lines of the file it produces
write(cp) ==
    (IF DOMAIN cp.defaults # {} THEN _write_section(DEFAULTSECT, cp.defaults)
     ELSE <<>>)
    \o WriteSections(cp, SelectSeq(SectionOrder,
                                   LAMBDA n : n \in DOMAIN cp.sections))

(***************************************************************************)
(* str(n) of Python for an integer.                                        *)
(***************************************************************************)
DigitChar(d) ==
    CASE d = 0 -> "0" [] d = 1 -> "1" [] d = 2 -> "2" [] d = 3 -> "3"
      [] d = 4 -> "4" [] d = 5 -> "5" [] d = 6 -> "6" [] d = 7 -> "7"
      [] d = 8 -> "8" [] d = 9 -> "9"

RECURSIVE NatToStr(_)
NatToStr(n) ==
    IF n < 10 THEN <<DigitChar(n)>>
    ELSE NatToStr(n \div 10) \o <<DigitChar(n % 10)>>

str(n) == IF n < 0 THEN <<"-">> \o NatToStr(0 - n) ELSE NatToStr(n)

\* ",".join(parts)
RECURSIVE Join(_)
Join(parts) ==
    IF parts = <<>> THEN <<>>
    ELSE IF Len(parts) = 1 THEN Head(parts)
    ELSE Head(parts) \o <<",">> \o Join(Tail(parts))

(***************************************************************************)
(* State.                                                                  *)
(***************************************************************************)
VARIABLES
    pc,              \* position of the process in the module's start-up
                     \* code, "ready" once als.config is imported, "fatal"
                     \* when an exception escaped the start-up code
    run,             \* number of processes started so far
    ops,             \* number of API calls made so far
    file,            \* the settings file _CONFIG_FILE_PATH on disk
    _CONFIG_PARSER,  \* the module's parser
    loglevel,        \* level given to logging.basicConfig, PyNone before
    last,            \* the last step: the call, its arguments and outcome
    persisted        \* history: the parser that a successful save wrote
                     \* to the file now on disk, if that is where it is from

vars == <<pc, run, ops, file, _CONFIG_PARSER, loglevel, last, persisted>>

\* the file on disk is not (or no longer) what a successful save wrote
NotPersisted == [valid |-> FALSE, cp |-> NewConfigParser]

\* persisted after a save with outcome o
Persist(o) ==
    IF o.io = "ok" THEN [valid |-> TRUE, cp |-> o.cp]
    ELSE IF o.io = "write_failed" THEN NotPersisted
    ELSE persisted

\* the record kept of a step
Step(op) ==
    [op |-> op, key |-> "", arg |-> PyNone, pre |-> Ok(PyNone),
     exc |-> "none", ret |-> PyNone, io |-> "none", log |-> "none",
     box |-> 0, saved |-> FALSE, accepted |-> FALSE]

(***************************************************************************)
(* Generic accessors.                                                      *)
(***************************************************************************)
\* _get with the default of another key as its fallback
_get_wrong_fallback(cp, key) ==
    IF key \notin DOMAIN _DEFAULTS THEN Raise("KeyError")
    ELSE ParserGet(cp, _MAIN_SECTION_NAME, key, _DEFAULTS[_LOG_LEVEL])

\* _get(key) on the parser cp; _DEFAULTS[key] is evaluated first
_get(cp, key) ==
    IF key \notin DOMAIN _DEFAULTS THEN Raise("KeyError")
    ELSE ParserGet(cp, _MAIN_SECTION_NAME, key, _DEFAULTS[key])

\* _set without the comparison with the current value
_set_unconditional(cp, key, value) ==
    ParserSet(cp, _MAIN_SECTION_NAME, key, value)

\* the body of _set that drops the entry when given the default of the key
SetIfDiffers_removing(cp, key, value, current) ==
    IF current.exc # "none" THEN [exc |-> current.exc, cp |-> cp]
    ELSE IF value.t = "str" /\ value.s = _DEFAULTS[key]
    THEN [exc |-> "none", cp |-> remove_option(cp, _MAIN_SECTION_NAME, key)]
    ELSE IF value # current.val
    THEN ParserSet(cp, _MAIN_SECTION_NAME, key, value)
    ELSE [exc |-> "none", cp |-> cp]

\* the body of _set once current = _get(key) is known
SetIfDiffers(cp, key, value, current) ==
    IF current.exc # "none" THEN [exc |-> current.exc, cp |-> cp]
    ELSE IF value # current.val
    THEN ParserSet(cp, _MAIN_SECTION_NAME, key, value)
    ELSE [exc |-> "none", cp |-> cp]

\* _set(key, value) on the parser cp: the exception raised ("none" when
\* the call returns) and the parser afterwards
_set(cp, key, value) == SetIfDiffers(cp, key, value, _get(cp, key))

(***************************************************************************)
(* Typed accessors (getters), on the parser cp.                            *)
(***************************************************************************)
PyBool(b) == [t |-> "bool", b |-> b]
PyTuple(items) == [t |-> "tuple", items |-> items]

\* _get(_LOG_LEVEL) == 'DEBUG', level being what _get returned
IsDebug(level) ==
    IF level.exc # "none" THEN level
    ELSE Ok(PyBool(level.val.s = _LOG_LEVEL_DEBUG))

is_debug_log_on(cp) == IsDebug(_get(cp, _LOG_LEVEL))

\* the try/except of get_www_server_port_number around int(): only
\* ValueError is caught
IntOrDefault(parsed) ==
    IF parsed.exc = "ValueError" THEN Ok(PyStr(_DEFAULTS[_WWW_SERVER_PORT]))
    ELSE parsed

\* int(_get(_WWW_SERVER_PORT)), raw being what _get returned
PortNumberOf(raw) ==
    IF raw.exc # "none" THEN raw ELSE IntOrDefault(int(raw.val))

get_www_server_port_number(cp) == PortNumberOf(_get(cp, _WWW_SERVER_PORT))

get_work_folder_path(cp) == _get(cp, _WORK_FOLDER_PATH)

get_scan_folder_path(cp) == _get(cp, _SCAN_FOLDER_PATH)

\* text.split(","): the pieces between the commas, at least one
RECURSIVE Split(_)
Split(text) ==
    IF ~Contains(text, ",") THEN <<text>>
    ELSE <<SubSeq(text, 1, Find(text, ",") - 1)>>
         \o Split(Drop(text, Find(text, ",")))

\* [int(value) for value in parts]: the list, or the first exception
RECURSIVE IntsOf(_)
IntsOf(parts) ==
    IF parts = <<>> THEN Ok(<<>>)
    ELSE IF int(PyStr(Head(parts))).exc # "none" THEN int(PyStr(Head(parts)))
    ELSE IF IntsOf(Tail(parts)).exc # "none" THEN IntsOf(Tail(parts))
    ELSE Ok(<<int(PyStr(Head(parts))).val.n>> \o IntsOf(Tail(parts)).val)

\* tuple([int(value) for value in raw.split(",")]), raw being what _get
\* returned
GeometryOf(raw) ==
    IF raw.exc # "none" THEN raw
    ELSE IF IntsOf(Split(raw.val.s)).exc # "none"
    THEN IntsOf(Split(raw.val.s))
    ELSE Ok(PyTuple(IntsOf(Split(raw.val.s)).val))

get_window_geometry(cp) == GeometryOf(_get(cp, _WINDOW_GEOMETRY))

(***************************************************************************)
(* Inputs: the texts given to the setters and found in the settings file.  *)
(***************************************************************************)
TxtDir == <<"/", "d">>
TxtDirSpace == <<"/", "d", " ">>
TxtPercent == <<"5", "%">>
TxtEscaped == <<"%", "%">>
TxtMissingRef == <<"%", "(", "x", ")", "s">>
TxtLevelRef == <<"%", "(", "l", "o", "g", "_", "l", "e", "v", "e", "l", ")", "s">>
TxtPort == <<"8", "0", "8", "0">>
TxtNotANumber == <<"x">>
TxtTrace == <<"T", "R", "A", "C", "E">>
TxtGeometry == <<"1", ",", "2", ",", "3", ",", "4">>
TxtPortRef ==
    <<"%", "(", "w", "w", "w", "_", "s", "e", "r", "v", "e", "r", "_",
      "p", "o", "r", "t", ")", "s">>

\* arguments of set_scan_folder_path and set_work_folder_path
ScanPathInputs ==
    {PyStr(TxtDir), PyStr(TxtDirSpace), PyStr(TxtPercent), PyStr(TxtEscaped),
     PyStr(_DEFAULTS[_SCAN_FOLDER_PATH])}
WorkPathInputs ==
    {PyStr(TxtDir), PyStr(TxtLevelRef), PyStr(_DEFAULTS[_WORK_FOLDER_PATH])}

\* arguments of set_www_server_port_number
PortInputs ==
    {PyStr(TxtPort), PyStr(_DEFAULTS[_WWW_SERVER_PORT]), PyStr(TxtNotANumber),
     PyStr(TxtMissingRef), PyInt(8080)}

\* arguments of set_window_geometry
GeometryInputs == {<<50, 100, 1024, 800>>, <<1, 2, 3, 4>>}

\* contents of the settings file when the program is first started
InitialFiles ==
    {NoFile,
     FileOf(<<Header("main")>>),
     FileOf(<<Header("main"), Option(_SCAN_FOLDER_PATH, <<" ">> \o TxtDir),
              Option("obsolete", <<" ", "1">>)>>),
     FileOf(<<Header("main"), Option(_LOG_LEVEL, <<" ">> \o _LOG_LEVEL_DEBUG),
              Option("LOG_LEVEL", <<" ">> \o _LOG_LEVEL_INFO)>>),
     FileOf(<<Header("main"), Garbage>>),
     FileOf(<<Option(_LOG_LEVEL, <<" ">> \o _LOG_LEVEL_DEBUG)>>),
     FileOf(<<Header("main"), Header("main")>>),
     FileOf(<<Header(DEFAULTSECT),
              Option(_LOG_LEVEL, <<" ">> \o _LOG_LEVEL_DEBUG),
              Header("main"), Option(_WWW_SERVER_PORT, <<" ">> \o TxtPort)>>),
     FileOf(<<Header(DEFAULTSECT), Option("obsolete", <<" ", "1">>),
              Header("main")>>),
     FileOf(<<Header("main"), Option(_LOG_LEVEL, <<" ">> \o TxtTrace)>>),
     FileOf(<<Header("main"),
              Option(_LOG_LEVEL, <<" ">> \o _LOG_LEVEL_WARNING),
              Option(_WWW_SERVER_PORT, <<" ">> \o TxtPercent)>>),
     FileOf(<<Header("other"), Option("obsolete", <<" ", "1">>)>>),
     FileOf(<<Header("main"),
              Option(_WWW_SERVER_PORT, <<" ">> \o TxtNotANumber)>>),
     FileOf(<<Header("main"), Option("WWW_SERVER_PORT", <<" ">> \o TxtPort),
              Option(_WINDOW_GEOMETRY, <<" ">> \o TxtGeometry)>>),
     FileOf(<<Header("main"),
              Option(_LOG_LEVEL, <<" ">> \o _LOG_LEVEL_ERROR),
              Option(_WWW_SERVER_PORT, <<" ">> \o TxtPort),
              Option(_WINDOW_GEOMETRY, <<" ">> \o TxtPortRef)>>)}

(***************************************************************************)
(* The process starts: als.config is imported and its module-level code    *)
(* runs, in this order.                                                    *)
(***************************************************************************)
Init ==
    /\ pc = "read"
    /\ run = 1
    /\ ops = 0
    /\ file \in InitialFiles
    /\ _CONFIG_PARSER = NewConfigParser
    /\ loglevel = PyNone
    /\ last = Step("start")
    /\ persisted = NotPersisted

\* an exception escapes the module's code: the import fails
Fatal(exc) ==
    /\ pc' = "fatal"
    /\ _CONFIG_PARSER' = NewConfigParser
    /\ last' = [Step("startup") EXCEPT !.exc = exc]

\* _CONFIG_PARSER.read(_CONFIG_FILE_PATH), DuplicateOptionError and
\* ParsingError (with its subclass MissingSectionHeaderError) re-raised
\* as ValueError
ReadConfig ==
    /\ pc = "read"
    /\ LET r == read(_CONFIG_PARSER, file)
       IN  IF r.exc \in {"DuplicateOptionError", "ParsingError",
                         "MissingSectionHeaderError"}
           THEN Fatal("ValueError")
           ELSE IF r.exc # "none" THEN Fatal(r.exc)
           ELSE /\ pc' = "logging"
                /\ _CONFIG_PARSER' = r.cp
                /\ last' = Step("startup")
    /\ UNCHANGED <<run, ops, file, loglevel, persisted>>

\* the logging step passed over: the threshold is not configured
InitLogging_skipped ==
    /\ pc = "logging"
    /\ pc' = "addsection"
    /\ last' = Step("startup")
    /\ UNCHANGED <<run, ops, file, _CONFIG_PARSER, loglevel, persisted>>

\* logging.basicConfig(level=_LOG_LEVELS[_get(_LOG_LEVEL)], ...)
InitLogging ==
    /\ pc = "logging"
    /\ LET level == _get(_CONFIG_PARSER, _LOG_LEVEL)
       IN  IF level.exc # "none"
           THEN Fatal(level.exc) /\ UNCHANGED loglevel
           ELSE IF level.val.s \notin DOMAIN _LOG_LEVELS
           THEN Fatal("KeyError") /\ UNCHANGED loglevel
           ELSE /\ pc' = "addsection"
                /\ loglevel' = PyInt(_LOG_LEVELS[level.val.s])
                /\ last' = Step("startup")
                /\ UNCHANGED _CONFIG_PARSER
    /\ UNCHANGED <<run, ops, file, persisted>>

\* add our main section if not already present
AddMainSection ==
    /\ pc = "addsection"
    /\ pc' = "prune"
    /\ _CONFIG_PARSER' =
           IF ~has_section(_CONFIG_PARSER, _MAIN_SECTION_NAME)
           THEN add_section(_CONFIG_PARSER, _MAIN_SECTION_NAME)
           ELSE _CONFIG_PARSER
    /\ last' = Step("startup")
    /\ UNCHANGED <<run, ops, file, loglevel, persisted>>

\* the cleanup loop with its test inverted: the recognized options go
CleanupOptions_inverted(cp, opts) ==
    [cp EXCEPT !.sections[_MAIN_SECTION_NAME] =
        [k \in DOMAIN @ \ (opts \cap DOMAIN _DEFAULTS) |-> @[k]]]

\* the loop of "cleanup unused options" over the options opts
RECURSIVE CleanupOptions(_, _)
CleanupOptions(cp, opts) ==
    IF opts = {} THEN cp
    ELSE LET option == CHOOSE o \in opts : TRUE
         IN  CleanupOptions(
                 IF option \notin DOMAIN _DEFAULTS
                 THEN remove_option(cp, _MAIN_SECTION_NAME, option)
                 ELSE cp,
                 opts \ {option})

\* cleanup unused options
Prune ==
    /\ pc = "prune"
    /\ pc' = "dump"
    /\ _CONFIG_PARSER' =
           CleanupOptions(_CONFIG_PARSER,
                          options(_CONFIG_PARSER, _MAIN_SECTION_NAME))
    /\ last' = Step("startup")
    /\ UNCHANGED <<run, ops, file, loglevel, persisted>>

\* the "User config file dump" loop: _get(option) is evaluated for every
\* option of the main section, and the first exception escapes
Dump ==
    /\ pc = "dump"
    /\ LET failing == {o \in options(_CONFIG_PARSER, _MAIN_SECTION_NAME) :
                          _get(_CONFIG_PARSER, o).exc # "none"}
       IN  IF failing = {}
           THEN /\ pc' = "ready"
                /\ last' = Step("startup")
                /\ UNCHANGED _CONFIG_PARSER
           ELSE \E o \in failing : Fatal(_get(_CONFIG_PARSER, o).exc)
    /\ UNCHANGED <<run, ops, file, loglevel, persisted>>

\* the process ends (normally, or on the fatal error) and the program is
\* started again: nothing of the parser survives but the file
Restart ==
    /\ pc \in {"ready", "fatal"}
    /\ run < MaxRuns
    /\ pc' = "read"
    /\ run' = run + 1
    /\ _CONFIG_PARSER' = NewConfigParser
    /\ loglevel' = PyNone
    /\ last' = Step("start")
    /\ UNCHANGED <<ops, file, persisted>>

(***************************************************************************)
(* Typed accessors (setters) and save, on the parser cp: the exception     *)
(* raised ("none" when the call returns) and the parser afterwards.        *)
(***************************************************************************)
\* set_debug_log with its two branches exchanged
set_debug_log_swapped(cp, debug_active) ==
    IF debug_active THEN _set(cp, _LOG_LEVEL, PyStr(_LOG_LEVEL_INFO))
    ELSE _set(cp, _LOG_LEVEL, PyStr(_LOG_LEVEL_DEBUG))

set_debug_log(cp, debug_active) ==
    IF debug_active THEN _set(cp, _LOG_LEVEL, PyStr(_LOG_LEVEL_DEBUG))
    ELSE _set(cp, _LOG_LEVEL, PyStr(_LOG_LEVEL_INFO))

set_www_server_port_number(cp, port_number) ==
    _set(cp, _WWW_SERVER_PORT, port_number)

set_work_folder_path(cp, path) == _set(cp, _WORK_FOLDER_PATH, path)

set_scan_folder_path(cp, path) == _set(cp, _SCAN_FOLDER_PATH, path)

\* the text set_window_geometry gives to _set
GeometryText(geometry_tuple) ==
    Join([i \in 1..Len(geometry_tuple) |-> str(geometry_tuple[i])])

set_window_geometry(cp, geometry_tuple) ==
    _set(cp, _WINDOW_GEOMETRY, PyStr(GeometryText(geometry_tuple)))

\* save that lets OSError escape
save_raising(cp, f) ==
    {[io |-> "ok", file |-> FileOf(write(cp)), cp |-> cp, exc |-> "none",
      ret |-> PyNone, log |-> "info", box |-> 0],
     [io |-> "open_failed", file |-> f, cp |-> cp, exc |-> "OSError",
      ret |-> PyNone, log |-> "none", box |-> 0]}

\* save that forgets the settings when the write fails
save_clearing(cp, f) ==
    {[io |-> "ok", file |-> FileOf(write(cp)), cp |-> cp, exc |-> "none",
      ret |-> PyNone, log |-> "info", box |-> 0],
     [io |-> "open_failed", file |-> f,
      cp |-> add_section(NewConfigParser, _MAIN_SECTION_NAME),
      exc |-> "none", ret |-> PyNone, log |-> "error", box |-> 1]}

\* save(): the possible outcomes with parser cp and file f on disk.  open()
\* fails and leaves the file as it is, or truncates it; the write then
\* succeeds, or fails with some of the lines written.  OSError is caught:
\* the failure is logged and shown in an error box, and save returns None
\* as it does after a successful write.
save(cp, f) ==
    {[io |-> "ok", file |-> FileOf(write(cp)), cp |-> cp, exc |-> "none",
      ret |-> PyNone, log |-> "info", box |-> 0]}
    \cup
    {[io |-> "open_failed", file |-> f, cp |-> cp, exc |-> "none",
      ret |-> PyNone, log |-> "error", box |-> 1]}
    \cup
    {[io |-> "write_failed", file |-> FileOf(SubSeq(write(cp), 1, n)),
      cp |-> cp, exc |-> "none", ret |-> PyNone, log |-> "error", box |-> 1] :
        n \in 0..(Len(write(cp)) - 1)}

(***************************************************************************)
(* The API calls made by the rest of the application once als.config is    *)
(* imported.                                                               *)
(***************************************************************************)
\* a call of a setter that also writes the settings file
SetterCall_saving(op, key, value, r) ==
    /\ pc = "ready"
    /\ ops < MaxOps
    /\ ops' = ops + 1
    /\ _CONFIG_PARSER' = r.cp
    /\ file' = FileOf(write(r.cp))
    /\ last' = [Step(op) EXCEPT !.key = key, !.arg = value,
                                !.pre = _get(_CONFIG_PARSER, key),
                                !.exc = r.exc]
    /\ UNCHANGED <<pc, run, loglevel, persisted>>

\* a call of a setter that gives value to _set for key, with outcome r
SetterCall(op, key, value, r) ==
    /\ pc = "ready"
    /\ ops < MaxOps
    /\ ops' = ops + 1
    /\ _CONFIG_PARSER' = r.cp
    /\ last' = [Step(op) EXCEPT !.key = key, !.arg = value,
                                !.pre = _get(_CONFIG_PARSER, key),
                                !.exc = r.exc]
    /\ UNCHANGED <<pc, run, file, loglevel, persisted>>

CallSetScanFolderPath ==
    \E path \in ScanPathInputs :
        SetterCall("set_scan_folder_path", _SCAN_FOLDER_PATH, path,
                   set_scan_folder_path(_CONFIG_PARSER, path))

CallSetWorkFolderPath ==
    \E path \in WorkPathInputs :
        SetterCall("set_work_folder_path", _WORK_FOLDER_PATH, path,
                   set_work_folder_path(_CONFIG_PARSER, path))

CallSetWwwServerPortNumber ==
    \E port_number \in PortInputs :
        SetterCall("set_www_server_port_number", _WWW_SERVER_PORT, port_number,
                   set_www_server_port_number(_CONFIG_PARSER, port_number))

CallSetDebugLog ==
    \E debug_active \in BOOLEAN :
        SetterCall("set_debug_log", _LOG_LEVEL,
                   PyStr(IF debug_active THEN _LOG_LEVEL_DEBUG
                         ELSE _LOG_LEVEL_INFO),
                   set_debug_log(_CONFIG_PARSER, debug_active))

CallSetWindowGeometry ==
    \E geometry_tuple \in GeometryInputs :
        SetterCall("set_window_geometry", _WINDOW_GEOMETRY,
                   PyStr(GeometryText(geometry_tuple)),
                   set_window_geometry(_CONFIG_PARSER, geometry_tuple))

CallSave ==
    /\ pc = "ready"
    /\ ops < MaxOps
    /\ ops' = ops + 1
    /\ \E o \in save(_CONFIG_PARSER, file) :
           /\ file' = o.file
           /\ _CONFIG_PARSER' = o.cp
           /\ last' = [Step("save") EXCEPT !.exc = o.exc, !.ret = o.ret,
                                           !.io = o.io, !.log = o.log,
                                           !.box = o.box, !.saved = TRUE]
           /\ persisted' = Persist(o)
    /\ UNCHANGED <<pc, run, loglevel>>

(***************************************************************************)
(* PreferencesDialog.accept (src/src/als/ui/dialogs.py).                   *)
(***************************************************************************)
\* str.isdigit()
isdigit(text) == text # <<>> /\ \A i \in 1..Len(text) : text[i] \in Digits

\* what a call of accept does besides changing the parser and the file
AcceptStep(exc, box, log, saved, accepted, io) ==
    [Step("accept") EXCEPT !.exc = exc, !.box = box, !.log = log,
                           !.saved = saved, !.accepted = accepted, !.io = io]

\* a setter called by accept raised: the exception escapes accept
AcceptRaised(r, f) ==
    {[cp |-> r.cp, file |-> f, io |-> "none",
      step |-> AcceptStep(r.exc, 0, "none", FALSE, FALSE, "none")]}

\* the test accept makes on the text of the port
ValidPort(text) ==
    /\ isdigit(text)
    /\ 1024 <= int(PyStr(text)).val.n
    /\ int(PyStr(text)).val.n <= 65535

\* accept from config.save() on, debug being the outcome of set_debug_log
AcceptSave(debug, f) ==
    IF debug.exc # "none" THEN AcceptRaised(debug, f)
    ELSE {[cp |-> o.cp, file |-> o.file, io |-> o.io,
           step |-> AcceptStep(o.exc, o.box, o.log, TRUE, TRUE, o.io)] :
             o \in save(debug.cp, f)}

\* accept from config.set_debug_log on, port being the outcome of
\* set_www_server_port_number
AcceptDebug(port, f, ui) ==
    IF port.exc # "none" THEN AcceptRaised(port, f)
    ELSE AcceptSave(set_debug_log(port.cp, ui.debug), f)

\* accept from the test of the port on, work being the outcome of
\* set_work_folder_path: a wrong port ends accept with an error box
AcceptPort(work, f, ui) ==
    IF work.exc # "none" THEN AcceptRaised(work, f)
    ELSE IF ~ValidPort(ui.port)
    THEN {[cp |-> work.cp, file |-> f, io |-> "none",
           step |-> AcceptStep("none", 1, "error", FALSE, FALSE, "none")]}
    ELSE AcceptDebug(set_www_server_port_number(work.cp, PyStr(ui.port)),
                     f, ui)

\* accept from config.set_work_folder_path on, scan being the outcome of
\* set_scan_folder_path
AcceptWork(scan, f, ui) ==
    IF scan.exc # "none" THEN AcceptRaised(scan, f)
    ELSE AcceptPort(set_work_folder_path(scan.cp, PyStr(ui.work)), f, ui)

\* accept() with the texts and the check box ui of the dialog: the possible
\* outcomes (parser and file afterwards, and the step made)
accept(cp, f, ui) ==
    AcceptWork(set_scan_folder_path(cp, PyStr(ui.scan)), f, ui)

\* what the user may have typed in the dialog when pressing OK
DialogInputs ==
    [scan : {TxtDir, TxtPercent}, work : {TxtDir},
     port : {TxtPort, <<"8", "0">>}, debug : BOOLEAN]

CallAccept ==
    /\ pc = "ready"
    /\ ops < MaxOps
    /\ ops' = ops + 1
    /\ \E ui \in DialogInputs :
           \E o \in accept(_CONFIG_PARSER, file, ui) :
               /\ _CONFIG_PARSER' = o.cp
               /\ file' = o.file
               /\ last' = o.step
               /\ persisted' = Persist(o)
    /\ UNCHANGED <<pc, run, loglevel>>

Next ==
    \/ ReadConfig
    \/ InitLogging
    \/ AddMainSection
    \/ Prune
    \/ Dump
    \/ Restart
    \/ CallSetScanFolderPath
    \/ CallSetWorkFolderPath
    \/ CallSetWwwServerPortNumber
    \/ CallSetDebugLog
    \/ CallSetWindowGeometry
    \/ CallSave
    \/ CallAccept

Spec == Init /\ [][Next]_vars

(***************************************************************************)
(* Properties.                                                             *)
(***************************************************************************)
SetterOps ==
    {"set_scan_folder_path", "set_work_folder_path",
     "set_www_server_port_number", "set_debug_log", "set_window_geometry"}

\* the main section of the parser cp (no option when it has no such section)
MainSection(cp) ==
    IF has_section(cp, _MAIN_SECTION_NAME)
    THEN cp.sections[_MAIN_SECTION_NAME]
    ELSE EmptyDict

\* the dict d without the options that are not in _DEFAULTS
Recognized(d) == [k \in DOMAIN d \cap DOMAIN _DEFAULTS |-> d[k]]

\* the raw value kept for key: the option of the main section, else of the
\* DEFAULT section, else the default
RawValue(cp, key) ==
    IF key \in DOMAIN _unify_values(cp, _MAIN_SECTION_NAME)
    THEN _unify_values(cp, _MAIN_SECTION_NAME)[key]
    ELSE _DEFAULTS[key]

\* C1: after a setter has given _set a string that differs from what _get
\* returned for the key just before, the call has raised nothing and _get
\* returns that string.
C1_SetThenGet ==
    (/\ last.op \in SetterOps
     /\ last.arg.t = "str"
     /\ last.pre.exc = "none"
     /\ last.arg # last.pre.val)
    => /\ last.exc = "none"
       /\ _get(_CONFIG_PARSER, last.key) = Ok(last.arg)

\* the section is freshly empty: no option in "main" nor in DEFAULT
FreshlyEmpty ==
    /\ has_section(_CONFIG_PARSER, _MAIN_SECTION_NAME)
    /\ options(_CONFIG_PARSER, _MAIN_SECTION_NAME) = {}

\* C2: with a freshly empty section, _get returns the default of every
\* recognized key and raises nothing.
C2_DefaultOnEmptySection ==
    FreshlyEmpty =>
        \A key \in DOMAIN _DEFAULTS :
            _get(_CONFIG_PARSER, key) = Ok(PyStr(_DEFAULTS[key]))

C2_Witness == pc = "ready" /\ FreshlyEmpty

\* C3: a setter that gives _set the value _get returns for the key leaves
\* the parser, hence the whole section, as it was.
C3_RedundantSetIsNoOp ==
    [][(/\ ops' = ops + 1
        /\ last'.op \in SetterOps
        /\ last'.pre = Ok(last'.arg))
       => _CONFIG_PARSER' = _CONFIG_PARSER]_vars

\* a setter was given the default of a key that has no entry
C3_Witness ==
    /\ last.op \in SetterOps
    /\ last.pre = Ok(last.arg)
    /\ last.exc = "none"
    /\ last.key \notin DOMAIN MainSection(_CONFIG_PARSER)
    /\ DOMAIN MainSection(_CONFIG_PARSER) # {}

\* C4: when a new process has read and pruned the file that a successful
\* save wrote, _get returns for every recognized key what it returned in
\* the process that saved, at the time of the save.
C4_SaveLoadRoundTrip ==
    (pc = "dump" /\ persisted.valid) =>
        \A key \in DOMAIN _DEFAULTS :
            _get(_CONFIG_PARSER, key) = _get(persisted.cp, key)

\* C5: once the start-up code has pruned the section, and after any calls
\* of the setters, of save and of accept, the main section holds recognized
\* keys only; once start-up has finished, so do the options inherited from
\* the DEFAULT section.
C5_OnlyRecognizedKeys ==
    /\ pc \in {"dump", "ready"} =>
           DOMAIN MainSection(_CONFIG_PARSER) \subseteq DOMAIN _DEFAULTS
    /\ pc = "ready" =>
           options(_CONFIG_PARSER, _MAIN_SECTION_NAME)
               \subseteq DOMAIN _DEFAULTS

\* setters have acted on a section loaded from a file with an obsolete key
C5_Witness ==
    /\ pc = "ready"
    /\ last.op \in SetterOps
    /\ last.exc = "none"
    /\ last.pre # Ok(last.arg)
    /\ \E i \in 1..Len(file.lines) : file.lines[i].name = "obsolete"
    /\ Cardinality(DOMAIN MainSection(_CONFIG_PARSER)) >= 2

SectionOfLine(lines, i) ==
    LET headers == {j \in 1..(i - 1) : lines[j].kind = "header"}
    IN  IF headers = {} THEN ""
        ELSE lines[CHOOSE j \in headers : \A k \in headers : k <= j].name

\* two option lines of one section name the same key
HasDuplicateKey(lines) ==
    \E i, j \in 1..Len(lines) :
        /\ i < j
        /\ lines[i].kind = "option"
        /\ lines[j].kind = "option"
        /\ optionxform(lines[i].name) = optionxform(lines[j].name)
        /\ SectionOfLine(lines, i) = SectionOfLine(lines, j)

\* a line is neither a header nor an option, or comes before any header
HasUnparsableLine(lines) ==
    \E i \in 1..Len(lines) :
        \/ lines[i].kind = "garbage"
        \/ lines[i].kind = "option" /\ SectionOfLine(lines, i) = ""

\* the settings file f exists and is malformed
Malformed(f) ==
    f.exists /\ (HasDuplicateKey(f.lines) \/ HasUnparsableLine(f.lines))

\* C7: when the file is malformed, the read step ends the start-up with an
\* exception that escapes the module, and leaves no parser: the accessors,
\* which need pc = "ready", never get a section.
C7_MalformedFileIsFatal ==
    [][(pc = "read" /\ Malformed(file)) =>
        /\ pc' = "fatal"
        /\ last'.exc # "none"
        /\ _CONFIG_PARSER' = NewConfigParser]_vars

\* a file with a duplicate key stopped the start-up
C7_Witness ==
    /\ pc = "fatal"
    /\ last.exc = "ValueError"
    /\ HasDuplicateKey(file.lines)

SaveFailures == {"open_failed", "write_failed"}

C9_SaveLeavesSectionUnchanged ==
    [][(ops' = ops + 1 /\ last'.op = "save") =>
        /\ _CONFIG_PARSER' = _CONFIG_PARSER
        /\ \A key \in DOMAIN _DEFAULTS :
               _get(_CONFIG_PARSER', key) = _get(_CONFIG_PARSER, key)]_vars

\* a save has failed while the section held overrides
C9_Witness ==
    /\ last.op = "save"
    /\ last.io \in SaveFailures
    /\ DOMAIN MainSection(_CONFIG_PARSER) # {}

\* C10: get_www_server_port_number raises nothing; it returns the integer
\* the raw value kept for the port parses to, and the text "8000" when
\* that raw value does not parse as an integer.
C10_PortGetNeverRaises ==
    pc = "ready" =>
        get_www_server_port_number(_CONFIG_PARSER) =
            IF int(PyStr(RawValue(_CONFIG_PARSER, _WWW_SERVER_PORT))).exc
                   = "none"
            THEN int(PyStr(RawValue(_CONFIG_PARSER, _WWW_SERVER_PORT)))
            ELSE Ok(PyStr(_DEFAULTS[_WWW_SERVER_PORT]))

\* C11: a call of set_www_server_port_number with an integer, made while
\* the port reads back without error, raises nothing, and
\* get_www_server_port_number then returns that integer.
C11_IntPortAccepted ==
    (/\ last.op = "set_www_server_port_number"
     /\ last.arg.t = "int"
     /\ last.pre.exc = "none")
    => /\ last.exc = "none"
       /\ get_www_server_port_number(_CONFIG_PARSER) = Ok(last.arg)

\* the tuples that set_window_geometry turns into the text it gave to _set
TuplesOfLast == {t \in GeometryInputs : PyStr(GeometryText(t)) = last.arg}

\* C12: a call of set_window_geometry with a tuple of four integers raises
\* nothing, and get_window_geometry then returns that tuple, whether or not
\* the text was written to the section.
C12_GeometryRoundTrip ==
    last.op = "set_window_geometry" =>
        /\ last.exc = "none"
        /\ \A t \in TuplesOfLast :
               get_window_geometry(_CONFIG_PARSER) = Ok(PyTuple(t))

\* C13: after a call of set_debug_log made while the log level read back as
\* one of the five names (the default INFO when it was unset), the call has
\* raised nothing; is_debug_log_on returns true after set_debug_log(true);
\* after set_debug_log(false) it returns false and the log level reads back
\* as "INFO".  last.arg is DEBUG for true and INFO for false.
C13_DebugFlagRoundTrip ==
    (/\ last.op = "set_debug_log"
     /\ last.pre.exc = "none"
     /\ last.pre.val.s \in DOMAIN _LOG_LEVELS)
    => /\ last.exc = "none"
       /\ is_debug_log_on(_CONFIG_PARSER) =
              Ok(PyBool(last.arg.s = _LOG_LEVEL_DEBUG))
       /\ last.arg.s = _LOG_LEVEL_INFO =>
              _get(_CONFIG_PARSER, _LOG_LEVEL) = Ok(PyStr(_LOG_LEVEL_INFO))

\* set_debug_log(false) has collapsed a stored ERROR to INFO
C13_Witness ==
    /\ last.op = "set_debug_log"
    /\ last.pre = Ok(PyStr(_LOG_LEVEL_ERROR))
    /\ last.arg = PyStr(_LOG_LEVEL_INFO)
    /\ MainSection(_CONFIG_PARSER)[_LOG_LEVEL] = _LOG_LEVEL_INFO

\* C14: while the settings file does not exist, no start-up step fails, and
\* when the start-up has finished the parser holds a "main" section with no
\* entry and nothing else, and _get returns the default of every
\* recognized key.
C14_AbsentFileStartsEmpty ==
    ~file.exists =>
        /\ pc # "fatal"
        /\ (pc = "ready" /\ last.op = "startup") =>
               /\ DOMAIN _CONFIG_PARSER.sections = {_MAIN_SECTION_NAME}
               /\ _CONFIG_PARSER.sections[_MAIN_SECTION_NAME] = EmptyDict
               /\ _CONFIG_PARSER.defaults = EmptyDict
               /\ \A key \in DOMAIN _DEFAULTS :
                      _get(_CONFIG_PARSER, key) = Ok(PyStr(_DEFAULTS[key]))

\* the start-up has finished without a settings file
C14_Witness ==
    /\ ~file.exists
    /\ pc = "ready"
    /\ last.op = "startup"
    /\ loglevel = PyInt(_LOG_LEVELS[_LOG_LEVEL_INFO])

\* the log level _get returns with the parser cp is one of the five names
LevelKnown(cp) ==
    /\ _get(cp, _LOG_LEVEL).exc = "none"
    /\ _get(cp, _LOG_LEVEL).val.s \in DOMAIN _LOG_LEVELS

\* C15, as claimed: the logging threshold is configured only after the
\* unrecognized keys have been pruned, so that whenever it is configured
\* the pruning step is behind.
C15_PruneBeforeLogging ==
    loglevel # PyNone => pc \in {"dump", "ready", "fatal"}

\* C15, as amended: the start-up steps are taken in the order load, logging,
\* add the main section, prune.  The threshold is configured right after
\* the load, from the log level of the section as loaded, and is already
\* in place, and left as it is, when the main section is added and when
\* the unrecognized keys are pruned.
C15_LoggingBeforePrune ==
    [][/\ pc = "read" =>
              /\ pc' \in {"logging", "fatal"}
              /\ loglevel = PyNone /\ loglevel' = PyNone
       /\ pc = "logging" =>
              /\ pc' \in {"addsection", "fatal"}
              /\ pc' = "addsection" =>
                     /\ LevelKnown(_CONFIG_PARSER)
                     /\ loglevel' =
                            PyInt(_LOG_LEVELS[
                                _get(_CONFIG_PARSER, _LOG_LEVEL).val.s])
                     /\ _CONFIG_PARSER' = _CONFIG_PARSER
       /\ pc = "addsection" =>
              /\ pc' = "prune"
              /\ loglevel # PyNone /\ loglevel' = loglevel
       /\ pc = "prune" =>
              /\ pc' = "dump"
              /\ loglevel # PyNone /\ loglevel' = loglevel]_vars

\* logging is configured and an unrecognized key is still to be pruned
C15_Witness ==
    /\ pc = "prune"
    /\ loglevel # PyNone
    /\ "obsolete" \in DOMAIN MainSection(_CONFIG_PARSER)

\* C16: once a well-formed settings file has been loaded, at the logging
\* step and at every later step of the start-up, and after any calls of
\* the setters, the log level _get returns is one of the five names of
\* _LOG_LEVELS, so that the lookup of the logging step finds an entry.
C16_LogLevelAlwaysKnown ==
    pc \in {"logging", "addsection", "prune", "dump", "ready"} =>
        LevelKnown(_CONFIG_PARSER)

\* C17: once the start-up has finished, no call removes an entry of the
\* main section.  A setter call that raises leaves the parser as it was.  A
\* setter given the default of a key that has an entry reading back as
\* another value raises nothing and leaves that entry in place, with the
\* default as its value.
C17_SettersNeverRemove ==
    [][(pc = "ready" /\ pc' = "ready") =>
        /\ DOMAIN MainSection(_CONFIG_PARSER)
               \subseteq DOMAIN MainSection(_CONFIG_PARSER')
        /\ (last'.op \in SetterOps /\ last'.exc # "none") =>
               _CONFIG_PARSER' = _CONFIG_PARSER
        /\ (/\ last'.op \in SetterOps
            /\ last'.key \in DOMAIN MainSection(_CONFIG_PARSER)
            /\ last'.pre.exc = "none"
            /\ last'.pre # Ok(last'.arg)
            /\ last'.arg = PyStr(_DEFAULTS[last'.key]))
           => /\ last'.exc = "none"
              /\ last'.key \in DOMAIN MainSection(_CONFIG_PARSER')
              /\ MainSection(_CONFIG_PARSER')[last'.key]
                     = _DEFAULTS[last'.key]]_vars

\* a setter has put an overridden key back to its default
C17_Witness ==
    /\ last.op \in SetterOps
    /\ last.exc = "none"
    /\ last.pre.exc = "none"
    /\ last.pre # Ok(last.arg)
    /\ last.arg = PyStr(_DEFAULTS[last.key])
    /\ last.key \in DOMAIN MainSection(_CONFIG_PARSER)
    /\ MainSection(_CONFIG_PARSER)[last.key] = _DEFAULTS[last.key]

\* C18: a call of accept that ends on the error box of the port validation
\* has left the parser and the settings file as they were and has not
\* called save.
C18_RejectedAcceptChangesNothing ==
    [][(/\ ops' = ops + 1
        /\ last'.op = "accept"
        /\ last'.exc = "none"
        /\ ~last'.accepted)
       => /\ _CONFIG_PARSER' = _CONFIG_PARSER
          /\ file' = file
          /\ ~last'.saved]_vars

\* C19: only a step that calls save changes the settings file; the setters
\* and the start-up steps leave it as it is.  When the process ends the
\* parser is dropped, and the parser of the next process is what the load
\* makes of the file alone: changes that were not saved are lost.
C19_OnlySaveWritesFile ==
    [][/\ file' # file => last'.saved
       /\ (last'.op \in SetterOps \/ pc # "ready") => file' = file
       /\ pc' = "read" => _CONFIG_PARSER' = NewConfigParser
       /\ (pc = "read" /\ pc' = "logging") =>
              _CONFIG_PARSER' = read(NewConfigParser, file').cp]_vars

\* a setter has changed the section of a process started from an existing
\* file, and the file still holds no entry for the key
C19_Witness ==
    /\ last.op \in SetterOps
    /\ last.exc = "none"
    /\ last.pre # Ok(last.arg)
    /\ last.key \in DOMAIN MainSection(_CONFIG_PARSER)
    /\ file.exists
    /\ \A i \in 1..Len(file.lines) : file.lines[i].name # last.key

====
